---- MODULE Spec2Model ----
(***************************************************************************)
(* Model of include/swift/APINotes/Types.h: the API-notes records          *)
(* ObjCClassInfo, ObjCPropertyInfo and ObjCMethodInfo.                     *)
(*                                                                         *)
(* Build modelled: assertions enabled (no NDEBUG); a failed assert aborts  *)
(* the program (fault = TRUE) before the statement that follows it.        *)
(* Words are modelled as sets of bit numbers, so that the 64-bit payload   *)
(* and the 32-bit temporary keep their widths.                             *)
(***************************************************************************)
EXTENDS Integers, FiniteSets, Sequences, TLC

VARIABLES cls, prop, clsLast, propLast, meth, fault, ret, last, same, rt

vars == <<cls, prop, clsLast, propLast, meth, fault, ret, last, same, rt>>

classVars == <<cls, prop, clsLast, propLast>>
methodVars == <<meth, fault, ret, last, same>>

(***************************************************************************)
(* Enumerations and widths                                                 *)
(***************************************************************************)
NonNullable == 0
Nullable == 1
Unknown == 2
NullableKind == {NonNullable, Nullable, Unknown}

Infer == 0
AsClassMethod == 1
AsInitializer == 2
FactoryAsInitKind == {Infer, AsClassMethod, AsInitializer}

NullableKindMask == 3
NullableKindSize == 2
\* sizeof(NullabilityPayload) * CHAR_BIT
PayloadBits == 64
\* width of `unsigned`, the type of kindValue
UnsignedBits == 32
\* width of the bit-field NumAdjustedNullable
NumAdjustedBits == 8

\* Optional<T>
Nothing == <<>>
Some(v) == <<v>>

RECURSIVE Pow2(_)
Pow2(n) == IF n = 0 THEN 1 ELSE 2 * Pow2(n - 1)

\* the bits of a small unsigned value, and back
BitsOf(v) == {b \in 0..(NullableKindSize - 1) : (v \div Pow2(b)) % 2 = 1}
ValueOf(bits) == (IF 0 \in bits THEN 1 ELSE 0) + (IF 1 \in bits THEN 2 ELSE 0)

\* assignment of an unsigned value to a bit-field of width w
BitField(v, w) == v % Pow2(w)

(***************************************************************************)
(* ObjCClassInfo                                                           *)
(***************************************************************************)
ObjCClassInfo == [HasDefaultNullability |-> 0, DefaultNullability |-> 0]

getDefaultNullability(c) ==
  IF c.HasDefaultNullability # 0 THEN Some(c.DefaultNullability) ELSE Nothing

setDefaultNullability_accumulate(c, kind) ==
  [c EXCEPT !.HasDefaultNullability = BitField(1, 1),
            !.DefaultNullability = ValueOf(BitsOf(@) \cup BitsOf(kind))]

setDefaultNullability(c, kind) ==
  [c EXCEPT !.HasDefaultNullability = BitField(1, 1),
            !.DefaultNullability = BitField(kind, NullableKindSize)]

ClassEq_valueOnly(lhs, rhs) ==
  lhs.DefaultNullability = rhs.DefaultNullability

ClassEq(lhs, rhs) ==
  /\ lhs.HasDefaultNullability = rhs.HasDefaultNullability
  /\ lhs.DefaultNullability = rhs.DefaultNullability

ClassNe(lhs, rhs) == ~ClassEq(lhs, rhs)

(***************************************************************************)
(* ObjCPropertyInfo                                                        *)
(***************************************************************************)
ObjCPropertyInfo == [NullabilityAudited |-> 0, Nullable |-> 0]

getNullability(p) ==
  IF p.NullabilityAudited # 0 THEN Some(p.Nullable) ELSE Nothing

setNullabilityAudited(p, kind) ==
  [p EXCEPT !.NullabilityAudited = BitField(1, 1),
            !.Nullable = BitField(kind, NullableKindSize)]

PropertyEq(lhs, rhs) ==
  /\ lhs.NullabilityAudited = rhs.NullabilityAudited
  /\ lhs.Nullable = rhs.Nullable

PropertyNe(lhs, rhs) == ~PropertyEq(lhs, rhs)

(***************************************************************************)
(* ObjCMethodInfo                                                          *)
(***************************************************************************)
ObjCMethodInfo ==
  [DesignatedInit |-> 0,
   FactoryAsInit |-> BitField(Infer, 2),
   Unavailable |-> 0,
   NullabilityAudited |-> 0,
   NumAdjustedNullable |-> 0,
   NullabilityPayload |-> {},
   UnavailableMsg |-> <<>>]

getFactoryAsInitKind(m) == m.FactoryAsInit

setFactoryAsInitKind(m, kind) == [m EXCEPT !.FactoryAsInit = BitField(kind, 2)]

\* v << s on `unsigned`: the possible results, as sets of bit numbers.  A
\* shift by the width or more is undefined; the builds either shift by the
\* count modulo the width (x86, AArch64 shift instructions) or yield zero
\* (ARM register shifts, constant folding).
ShiftLeftUnsigned(v, s) ==
  IF s < UnsignedBits
  THEN {{b + s : b \in BitsOf(v)} \cap (0..(UnsignedBits - 1))}
  ELSE {{b + (s % UnsignedBits) : b \in BitsOf(v)} \cap (0..(UnsignedBits - 1)),
        {}}

\* (payload >> s) & NullableKindMask on uint64_t: the possible results.  A
\* shift by 64 or more is undefined, with the same two outcomes.
ShiftRightMasked(payload, s) ==
  IF s < PayloadBits
  THEN {ValueOf({b - s : b \in payload \cap {s, s + 1}})}
  ELSE {ValueOf({b - (s % PayloadBits) :
                   b \in payload \cap {s % PayloadBits, (s % PayloadBits) + 1}}),
        0}

\* The outcomes of addTypeInfo: the failed assert, or the record after the OR.
addTypeInfo_noAuditAssert(m, index, kind) ==
  IF \/ ~(index <= PayloadBits \div NullableKindSize)
     \/ ~(kind < NullableKindMask)
  THEN {[fault |-> TRUE, rec |-> m]}
  ELSE {[fault |-> FALSE,
         rec |-> [m EXCEPT !.NullabilityPayload = @ \cup kindValue]] :
          kindValue \in ShiftLeftUnsigned(kind, index * NullableKindSize)}

addTypeInfo(m, index, kind) ==
  IF \/ ~(index <= PayloadBits \div NullableKindSize)
     \/ ~(kind < NullableKindMask)
     \/ ~(m.NullabilityAudited # 0)
  THEN {[fault |-> TRUE, rec |-> m]}
  ELSE {[fault |-> FALSE,
         rec |-> [m EXCEPT !.NullabilityPayload = @ \cup kindValue]] :
          kindValue \in ShiftLeftUnsigned(kind, index * NullableKindSize)}

\* The outcomes of getTypeInfo: the failed assert, or the value returned.
NoValue == -1

getTypeInfo_noAssert(m, index) ==
  IF index > m.NumAdjustedNullable
  THEN {[fault |-> FALSE, value |-> NonNullable]}
  ELSE {[fault |-> FALSE, value |-> v] :
          v \in ShiftRightMasked(m.NullabilityPayload, index * NullableKindSize)}

getTypeInfo(m, index) ==
  IF ~(m.NullabilityAudited # 0)
  THEN {[fault |-> TRUE, value |-> NoValue]}
  ELSE IF index > m.NumAdjustedNullable
  THEN {[fault |-> FALSE, value |-> NonNullable]}
  ELSE {[fault |-> FALSE, value |-> v] :
          v \in ShiftRightMasked(m.NullabilityPayload, index * NullableKindSize)}

getParamTypeInfo(m, index) == getTypeInfo(m, index + 1)

getReturnTypeInfo(m) == getTypeInfo(m, 0)

MethodEq(lhs, rhs) ==
  /\ lhs.DesignatedInit = rhs.DesignatedInit
  /\ lhs.FactoryAsInit = rhs.FactoryAsInit
  /\ lhs.Unavailable = rhs.Unavailable
  /\ lhs.NullabilityAudited = rhs.NullabilityAudited
  /\ lhs.NumAdjustedNullable = rhs.NumAdjustedNullable
  /\ lhs.NullabilityPayload = rhs.NullabilityPayload
  /\ lhs.UnavailableMsg = rhs.UnavailableMsg

MethodNe(lhs, rhs) == ~MethodEq(lhs, rhs)

(***************************************************************************)
(* State: two records of each type (operator== takes two), the outcome of  *)
(* the last call, and history variables for the properties.                *)
(*   cls, prop    the ObjCClassInfo / ObjCPropertyInfo records             *)
(*   clsLast, propLast   argument of the last set call on each record      *)
(*   meth         the ObjCMethodInfo records                               *)
(*   fault        an assert has failed: the program is aborted             *)
(*   ret          value returned by the last getter call                   *)
(*   last         the last call on a method record                         *)
(*   same         both method records have received the same calls         *)
(*   rt           the round-trip scenario's program counter                *)
(***************************************************************************)
Records == {1, 2}

\* bounds of the exploration
MaxMsgLen == 1
MaxStride == 2

Bools == {0, 1}
Messages == UNION {[1..n -> {"a"}] : n \in 0..MaxMsgLen}
WriteIndices == {0, 15, 16, 31, 32, 33}
ParamIndices == {0, 14, 31, 32}
NumValues == {0, 15, 32, 255}
EqIndices == {0, 16}
EqKinds == {Nullable}
EqNumValues == {0, 1}
RoundTripSizes == {0, 1, 31}

Call(op, index, kind) == [op |-> op, index |-> index, kind |-> kind]

RtIdle == [N |-> 0, base |-> 0, stride |-> 0, phase |-> "idle", i |-> 0, ok |-> TRUE]

Init ==
  /\ cls = [r \in Records |-> ObjCClassInfo]
  /\ prop = [r \in Records |-> ObjCPropertyInfo]
  /\ clsLast = [r \in Records |-> Nothing]
  /\ propLast = [r \in Records |-> Nothing]
  /\ meth = [r \in Records |-> ObjCMethodInfo]
  /\ fault = FALSE
  /\ ret = NoValue
  /\ last = Call("construct", 0, 0)
  /\ same = TRUE
  /\ rt = RtIdle

(***************************************************************************)
(* Class and property records                                              *)
(***************************************************************************)
NewClassInfo(r) ==
  /\ cls' = [cls EXCEPT ![r] = ObjCClassInfo]
  /\ clsLast' = [clsLast EXCEPT ![r] = Nothing]
  /\ UNCHANGED <<prop, propLast, methodVars, rt>>

SetDefaultNullability(r, kind) ==
  /\ cls' = [cls EXCEPT ![r] = setDefaultNullability(@, kind)]
  /\ clsLast' = [clsLast EXCEPT ![r] = Some(kind)]
  /\ UNCHANGED <<prop, propLast, methodVars, rt>>

NewPropertyInfo(r) ==
  /\ prop' = [prop EXCEPT ![r] = ObjCPropertyInfo]
  /\ propLast' = [propLast EXCEPT ![r] = Nothing]
  /\ UNCHANGED <<cls, clsLast, methodVars, rt>>

SetNullabilityAudited(r, kind) ==
  /\ prop' = [prop EXCEPT ![r] = setNullabilityAudited(@, kind)]
  /\ propLast' = [propLast EXCEPT ![r] = Some(kind)]
  /\ UNCHANGED <<cls, clsLast, methodVars, rt>>

NextClass ==
  \/ \E r \in Records : NewClassInfo(r)
  \/ \E r \in Records, kind \in NullableKind : SetDefaultNullability(r, kind)
  \/ \E r \in Records : NewPropertyInfo(r)
  \/ \E r \in Records, kind \in NullableKind : SetNullabilityAudited(r, kind)

SpecClass == Init /\ [][NextClass]_vars

(***************************************************************************)
(* Method records.  T is the set of records the call is made on, in        *)
(* order; a failed assert aborts before the remaining calls.               *)
(***************************************************************************)
NewMethodInfo ==
  /\ meth' = [r \in Records |-> ObjCMethodInfo]
  /\ fault' = FALSE
  /\ ret' = NoValue
  /\ last' = Call("construct", 0, 0)
  /\ same' = TRUE
  /\ UNCHANGED <<classVars, rt>>

\* stores to the public fields, and the setter that cannot fail, on each record of T
SetDesignatedInit(T, b) ==
  /\ ~fault
  /\ meth' = [r \in Records |->
               IF r \in T THEN [meth[r] EXCEPT !.DesignatedInit = BitField(b, 1)]
               ELSE meth[r]]
  /\ last' = Call("assign", 0, 0)
  /\ same' = (same /\ T = Records)
  /\ UNCHANGED <<fault, ret, classVars, rt>>

SetFactoryAsInitKind(T, kind) ==
  /\ ~fault
  /\ meth' = [r \in Records |->
               IF r \in T THEN setFactoryAsInitKind(meth[r], kind) ELSE meth[r]]
  /\ last' = Call("assign", 0, 0)
  /\ same' = (same /\ T = Records)
  /\ UNCHANGED <<fault, ret, classVars, rt>>

SetUnavailable(T, b) ==
  /\ ~fault
  /\ meth' = [r \in Records |->
               IF r \in T THEN [meth[r] EXCEPT !.Unavailable = BitField(b, 1)]
               ELSE meth[r]]
  /\ last' = Call("assign", 0, 0)
  /\ same' = (same /\ T = Records)
  /\ UNCHANGED <<fault, ret, classVars, rt>>

SetUnavailableMsg(T, msg) ==
  /\ ~fault
  /\ meth' = [r \in Records |->
               IF r \in T THEN [meth[r] EXCEPT !.UnavailableMsg = msg]
               ELSE meth[r]]
  /\ last' = Call("assign", 0, 0)
  /\ same' = (same /\ T = Records)
  /\ UNCHANGED <<fault, ret, classVars, rt>>

SetMethodNullabilityAudited(T, b) ==
  /\ ~fault
  /\ meth' = [r \in Records |->
               IF r \in T THEN [meth[r] EXCEPT !.NullabilityAudited = BitField(b, 1)]
               ELSE meth[r]]
  /\ last' = Call("assign", 0, 0)
  /\ same' = (same /\ T = Records)
  /\ UNCHANGED <<fault, ret, classVars, rt>>

SetNumAdjustedNullable(T, n) ==
  /\ ~fault
  /\ meth' = [r \in Records |->
               IF r \in T THEN [meth[r] EXCEPT !.NumAdjustedNullable = BitField(n, NumAdjustedBits)]
               ELSE meth[r]]
  /\ last' = Call("assign", 0, 0)
  /\ same' = (same /\ T = Records)
  /\ UNCHANGED <<fault, ret, classVars, rt>>

Skip(m) == {[fault |-> FALSE, rec |-> m]}

AddTypeInfo(T, index, kind) ==
  /\ ~fault
  /\ \E o1 \in IF 1 \in T THEN addTypeInfo(meth[1], index, kind) ELSE Skip(meth[1]) :
     \E o2 \in IF 2 \in T /\ ~o1.fault
               THEN addTypeInfo(meth[2], index, kind) ELSE Skip(meth[2]) :
       /\ meth' = [r \in Records |-> IF r = 1 THEN o1.rec ELSE o2.rec]
       /\ fault' = (o1.fault \/ o2.fault)
  /\ last' = Call("addTypeInfo", index, kind)
  /\ same' = (same /\ T = Records)
  /\ UNCHANGED <<ret, classVars, rt>>

GetReturnTypeInfo(r) ==
  /\ ~fault
  /\ \E o \in getReturnTypeInfo(meth[r]) :
       /\ fault' = o.fault
       /\ ret' = o.value
  /\ last' = Call("getReturnTypeInfo", 0, 0)
  /\ UNCHANGED <<meth, same, classVars, rt>>

GetParamTypeInfo(r, index) ==
  /\ ~fault
  /\ \E o \in getParamTypeInfo(meth[r], index) :
       /\ fault' = o.fault
       /\ ret' = o.value
  /\ last' = Call("getParamTypeInfo", index, 0)
  /\ UNCHANGED <<meth, same, classVars, rt>>

\* one method record, all calls
Next ==
  \/ NewMethodInfo
  \/ \E b \in Bools : SetDesignatedInit({1}, b)
  \/ \E kind \in FactoryAsInitKind : SetFactoryAsInitKind({1}, kind)
  \/ \E b \in Bools : SetUnavailable({1}, b)
  \/ \E msg \in Messages : SetUnavailableMsg({1}, msg)
  \/ \E b \in Bools : SetMethodNullabilityAudited({1}, b)
  \/ \E n \in NumValues : SetNumAdjustedNullable({1}, n)
  \/ \E index \in WriteIndices, kind \in NullableKind : AddTypeInfo({1}, index, kind)
  \/ GetReturnTypeInfo(1)
  \/ \E index \in ParamIndices : GetParamTypeInfo(1, index)

Spec == Init /\ [][Next]_vars

\* two method records, the calls made on one of them or on both
Targets == (SUBSET Records) \ {{}}

NextEq ==
  \/ NewMethodInfo
  \/ \E T \in Targets, b \in Bools : SetDesignatedInit(T, b)
  \/ \E T \in Targets, kind \in FactoryAsInitKind : SetFactoryAsInitKind(T, kind)
  \/ \E T \in Targets, b \in Bools : SetUnavailable(T, b)
  \/ \E T \in Targets, msg \in Messages : SetUnavailableMsg(T, msg)
  \/ \E T \in Targets, b \in Bools : SetMethodNullabilityAudited(T, b)
  \/ \E T \in Targets, n \in EqNumValues : SetNumAdjustedNullable(T, n)
  \/ \E T \in Targets, index \in EqIndices, kind \in EqKinds : AddTypeInfo(T, index, kind)

SpecEq == Init /\ [][NextEq]_vars

(***************************************************************************)
(* Round trip: on a fresh record, set NullabilityAudited and               *)
(* NumAdjustedNullable = N, write positions 0..N once each, in order, then *)
(* read them all back in order.  Position i is given the value             *)
(* (base + stride * i) mod 3.                                              *)
(***************************************************************************)
Val(i) == (rt.base + rt.stride * i) % Cardinality(NullableKind)

InitRoundTrip ==
  /\ cls = [r \in Records |-> ObjCClassInfo]
  /\ prop = [r \in Records |-> ObjCPropertyInfo]
  /\ clsLast = [r \in Records |-> Nothing]
  /\ propLast = [r \in Records |-> Nothing]
  /\ meth = [r \in Records |-> ObjCMethodInfo]
  /\ fault = FALSE
  /\ ret = NoValue
  /\ last = Call("construct", 0, 0)
  /\ same = TRUE
  /\ \E N \in RoundTripSizes, base \in NullableKind, stride \in 0..MaxStride :
       rt = [N |-> N, base |-> base, stride |-> stride,
             phase |-> "start", i |-> 0, ok |-> TRUE]

RoundTripStart ==
  /\ rt.phase = "start"
  /\ meth' = [meth EXCEPT ![1] =
                [@ EXCEPT !.NullabilityAudited = BitField(1, 1),
                          !.NumAdjustedNullable = BitField(rt.N, NumAdjustedBits)]]
  /\ last' = Call("assign", 0, 0)
  /\ same' = FALSE
  /\ rt' = [rt EXCEPT !.phase = "write"]
  /\ UNCHANGED <<fault, ret, classVars>>

RoundTripWrite ==
  /\ rt.phase = "write"
  /\ \E o \in addTypeInfo(meth[1], rt.i, Val(rt.i)) :
       /\ meth' = [meth EXCEPT ![1] = o.rec]
       /\ fault' = o.fault
       /\ rt' = IF o.fault THEN [rt EXCEPT !.phase = "aborted", !.ok = FALSE]
                ELSE IF rt.i < rt.N THEN [rt EXCEPT !.i = @ + 1]
                ELSE [rt EXCEPT !.phase = "read", !.i = 0]
  /\ last' = Call("addTypeInfo", rt.i, Val(rt.i))
  /\ UNCHANGED <<ret, same, classVars>>

RoundTripRead ==
  /\ rt.phase = "read"
  /\ \E o \in IF rt.i = 0 THEN getReturnTypeInfo(meth[1])
              ELSE getParamTypeInfo(meth[1], rt.i - 1) :
       /\ fault' = o.fault
       /\ ret' = o.value
       /\ rt' = IF o.fault THEN [rt EXCEPT !.phase = "aborted", !.ok = FALSE]
                ELSE IF rt.i < rt.N
                THEN [rt EXCEPT !.i = @ + 1, !.ok = @ /\ o.value = Val(rt.i)]
                ELSE [rt EXCEPT !.phase = "done", !.ok = @ /\ o.value = Val(rt.i)]
  /\ last' = IF rt.i = 0 THEN Call("getReturnTypeInfo", 0, 0)
             ELSE Call("getParamTypeInfo", rt.i - 1, 0)
  /\ UNCHANGED <<meth, same, classVars>>

NextRoundTrip ==
  \/ RoundTripStart
  \/ RoundTripWrite
  \/ RoundTripRead

SpecRoundTrip == InitRoundTrip /\ [][NextRoundTrip]_vars

(***************************************************************************)
(* Properties                                                              *)
(***************************************************************************)
Reads == {"getReturnTypeInfo", "getParamTypeInfo"}

\* the position a getter call reads
ReadPosition(call) == IF call.op = "getReturnTypeInfo" THEN 0 ELSE call.index + 1

\* the 2-bit field the 64-bit payload stores at a position (no bits, hence 0,
\* beyond the word)
StoredField(payload, position) ==
  ValueOf({b - position * NullableKindSize :
             b \in payload \cap {position * NullableKindSize,
                                 position * NullableKindSize + 1}})

\* the bits a write of kind at index is meant to set in the payload
EncodedAt(index, kind) == {b + index * NullableKindSize : b \in BitsOf(kind)}

\* C1: round trip.  For N in {0, 1, 31}, on an audited record with
\* NumAdjustedNullable = N and a zero payload, after one write per position
\* 0..N the getters return, position by position, the values written.
C1_RoundTrip == rt.phase \in {"done", "aborted"} => rt.ok

\* the part of the round trip that the 32-bit temporary leaves intact
RoundTripBelow16 == (rt.phase \in {"done", "aborted"} /\ rt.N < 16) => rt.ok

\* C2: read fallback policy.  On an audited record, whatever the payload, a
\* getter returns NonNullable when the position exceeds NumAdjustedNullable and
\* otherwise the 2-bit field stored at the position.
C2_ReadFallback ==
  (last.op \in Reads /\ meth[1].NullabilityAudited # 0) =>
    /\ ~fault
    /\ ret = IF ReadPosition(last) > meth[1].NumAdjustedNullable
             THEN NonNullable
             ELSE StoredField(meth[1].NullabilityPayload, ReadPosition(last))

\* C3: position bound.  A write is accepted only when index * 2 < 64; every
\* write with index >= 32 is rejected as a fault and leaves the payload unchanged.
C3_PositionBound ==
  [][(last'.op = "addTypeInfo" /\ ~(last'.index * NullableKindSize < PayloadBits))
       => (fault' /\ meth' = meth)]_vars

\* C4: audit before write.  Every write on a record whose NullabilityAudited
\* flag is clear is rejected as a fault and leaves the record's payload
\* unchanged; so no call on a record whose flag is clear changes its payload
\* (only constructing it anew does), and the payload of a record stays zero
\* until the flag has been set.
C4_AuditBeforeWrite ==
  [][/\ (last'.op = "addTypeInfo" /\ meth[1].NullabilityAudited = 0)
          => (fault' /\ meth'[1].NullabilityPayload = meth[1].NullabilityPayload)
     /\ (last'.op # "construct" /\ meth[1].NullabilityAudited = 0)
          => meth'[1].NullabilityPayload = meth[1].NullabilityPayload]_vars

C4_Witness ==
  /\ last.op = "addTypeInfo"
  /\ last.index * NullableKindSize < PayloadBits
  /\ meth[1].NullabilityAudited = 0
  /\ meth[1].NullabilityPayload # {}
  /\ fault

\* C5 as stated: the getters complete without a fault in every state, and on a
\* record that is not audited they report Unknown.
C5_ReadsAlwaysValid ==
  last.op \in Reads =>
    /\ ~fault
    /\ meth[1].NullabilityAudited = 0 => ret = Unknown

\* C5 as amended: the getters complete without a fault exactly when the record
\* is audited; on a record that is not audited (a fresh one included) they
\* fail the assert and report no value.
C5_ReadsNeedAudit ==
  last.op \in Reads =>
    /\ fault <=> meth[1].NullabilityAudited = 0
    /\ fault => ret = NoValue
    /\ ~fault => ret \in 0..NullableKindMask

C5_Witness ==
  /\ last.op = "getReturnTypeInfo"
  /\ meth[1] = ObjCMethodInfo
  /\ fault

\* C6: optional semantics.  A fresh class / property record reports absent;
\* after any set calls it reports present(v), v the argument of the last call.
C6_OptionalSemantics ==
  \A r \in Records :
    /\ getDefaultNullability(cls[r]) = clsLast[r]
    /\ getNullability(prop[r]) = propLast[r]

C6_Witness ==
  /\ clsLast[1] = Some(Unknown)
  /\ clsLast[2] = Nothing
  /\ propLast[1] = Some(NonNullable)
  /\ propLast[2] = Nothing

\* C7: equality of class / property records.  Two reachable records are equal
\* iff their presence flags match and, when present, their values match; an
\* absent record has zero value bits.
C7_Equality ==
  \A a \in Records, b \in Records :
    /\ ClassEq(cls[a], cls[b]) <=>
         /\ (cls[a].HasDefaultNullability # 0) = (cls[b].HasDefaultNullability # 0)
         /\ cls[a].HasDefaultNullability # 0 =>
              cls[a].DefaultNullability = cls[b].DefaultNullability
    /\ ClassNe(cls[a], cls[b]) = ~ClassEq(cls[a], cls[b])
    /\ cls[a].HasDefaultNullability = 0 => cls[a].DefaultNullability = 0
    /\ PropertyEq(prop[a], prop[b]) <=>
         /\ (prop[a].NullabilityAudited # 0) = (prop[b].NullabilityAudited # 0)
         /\ prop[a].NullabilityAudited # 0 => prop[a].Nullable = prop[b].Nullable
    /\ prop[a].NullabilityAudited = 0 => prop[a].Nullable = 0

C7_Witness ==
  /\ getDefaultNullability(cls[1]) = Nothing
  /\ getDefaultNullability(cls[2]) = Some(NonNullable)
  /\ ~ClassEq(cls[1], cls[2])
  /\ getNullability(prop[1]) = Some(Nullable)
  /\ getNullability(prop[2]) = Some(Nullable)
  /\ PropertyEq(prop[1], prop[2])

\* C8: structural equality of method records.  Two records that received the
\* same calls since construction are equal, and two records are equal iff
\* every field, the whole payload word included, matches.
C8_StructuralEquality ==
  /\ same => MethodEq(meth[1], meth[2])
  /\ MethodEq(meth[1], meth[2]) <=>
       \A f \in DOMAIN ObjCMethodInfo : meth[1][f] = meth[2][f]

\* the part of C8 that is about operator== alone
MethodEqIsFieldwise ==
  MethodEq(meth[1], meth[2]) <=>
    \A f \in DOMAIN ObjCMethodInfo : meth[1][f] = meth[2][f]

\* C9: OR-accumulation.  An accepted write at an in-range position ORs the
\* 2-bit encoding of the value into the payload at bit offset 2 * index and
\* clears nothing.
C9_OrAccumulation ==
  [][(/\ last'.op = "addTypeInfo"
      /\ ~fault'
      /\ last'.index * NullableKindSize < PayloadBits)
       => meth'[1].NullabilityPayload =
            meth[1].NullabilityPayload \cup EncodedAt(last'.index, last'.kind)]_vars

\* C10: frame of a write.  An accepted write changes at most the two payload
\* bits at offsets 2 * index and 2 * index + 1; every other position's field
\* and every other member of the record are unchanged.
C10_WriteFrame ==
  [][(last'.op = "addTypeInfo" /\ ~fault')
       => /\ \A b \in 0..(PayloadBits - 1) :
               (b \in meth'[1].NullabilityPayload) # (b \in meth[1].NullabilityPayload)
                 => b \in {last'.index * NullableKindSize,
                           last'.index * NullableKindSize + 1}
          /\ \A j \in 0..(PayloadBits \div NullableKindSize - 1) :
               j # last'.index =>
                 StoredField(meth'[1].NullabilityPayload, j) =
                   StoredField(meth[1].NullabilityPayload, j)
          /\ \A f \in DOMAIN ObjCMethodInfo \ {"NullabilityPayload"} :
               meth'[1][f] = meth[1][f]]_vars

====
